---- MODULE Spec2Model ----
(***************************************************************************)
(* Job queue and execution engine of the coin pricing/grading services:    *)
(* atomic claim, job heartbeat, stuck-job reclamation (services/worker and  *)
(* services/grader), price point upsert, source circuit breaker and the     *)
(* token-bucket rate limiter (services/worker/src/collectors/base.py).      *)
(*                                                                         *)
(* Time is kept as ages in seconds (time since an event), advanced by the   *)
(* action Tick in steps of TimeStep and saturated once the value can no     *)
(* longer change a comparison the code makes.                               *)
(***************************************************************************)
EXTENDS Integers, Sequences, FiniteSets, Bags

\* ------------------------------------------------------------------ bounds
NumJobs == 2
TimeStep == 100

\* ------------------------------------------------------- program constants
job_lock_timeout_seconds == 300
reclaim_check_interval == 60
worker_heartbeat_interval == 20
grader_heartbeat_interval == 30

Workers == {"w1", "w2"}
Graders == {"g1"}
Procs == Workers \cup Graders
Jobs == 1..NumJobs
NoJob == 0
Null == -1

JobTypes == {"pricing", "grading"}
\* delay_seconds values process_job passes to mark_job_retryable_in when the
\* source is unavailable: the floor of 30 s and the default of 300 s
RetryDelays == {30, 300}

VARIABLES
    \* scrape_jobs table
    jtype,          \* job_type of each job
    status,         \* status of each job
    hbAge,          \* seconds since the job's last heartbeat (or claim)
    retryIn,        \* seconds until next_retry_at, Null when the column is NULL
    \* worker / grader processes
    pc,             \* position of each process in run_worker / run_grader
    job,            \* the job the last claim_next_job returned, NoJob if none
    sinceReclaim,   \* seconds since last_reclaim_check
    hbRun,          \* the process's _heartbeat_loop thread is running
    hbWait,         \* seconds the heartbeat loop has waited since its last attempt
    \* history
    lastCall,       \* the latest store call of the main loops: "miss", a
                    \* claim_next_job that returned no job while another process
                    \* held a job of the requested type; "kept", a sweep that left
                    \* running a job held under a heartbeat that never failed
    hbFailed,       \* a heartbeat update of the process's current job has failed
    sinceClaim,     \* seconds since a claim_next_job call last returned a job
    \* price_points table and the workers inserting into it
    price_points,   \* bag of rows
    left,           \* listings of the current insert_price_points batch still to go
    lastOp,         \* history: what the latest upsert_price_point call met
    \* sources row of one source and the collectors reporting on it
    enabled, failure_streak,
    pauseLeft,      \* seconds until paused_until, Null when the column is NULL
    cpc,            \* position of each collector in collect / _update_circuit_breaker
    cur,            \* the failure_streak a collector has read from the store
    run,            \* history: failure reports completed one after another from a
                    \* streak of 0, Null once reports overlapped
    \* one RateLimiter
    tokens60,       \* tokens, in sixtieths of a token
    sinceRefill,    \* seconds since last_refill
    recent,         \* history: ages of the acquire() calls that returned True
                    \* less than 60 seconds ago
    \* the cache table of Cache
    cache_rows,     \* per key: the row's value and expires_at - now, or NoRow
    lastSet,        \* history, per key: the value and ttl_seconds of the latest
                    \* Cache.set and the time since it
    \* process_job of each worker
    jpc,            \* position in process_job
    jhb,            \* the job's heartbeat thread is running
    pj,             \* the job in hand: its source_id, its row in scrape_jobs and
                    \* what process_job has done for it
    \* a call of a function of the store layer or of the valuation engine
    arg,            \* the function called and its arguments
    ret,            \* what the call wrote or returned
    \* threads sharing the RateLimiter
    th,             \* per thread: the call it is in and its position there
    grants,         \* history: acquire() calls that have returned True
    supply60,       \* history: the tokens the bucket started with plus those
                    \* refilled since, in sixtieths of a token
    \* one collector with its cache, its rate limiter and its source
    kc,             \* the collect call under way: its position, its cache key,
                    \* what it has done so far and what it returned
    \* the heartbeat loop threads
    hl,             \* per loop: its position, its stop event, the seconds its
                    \* wait has lasted and the outcome of its latest update
    \* history of the reports of the collectors
    since,          \* failure reports begun since the latest reported success,
                    \* those under way when it was reported included; it stops
                    \* counting at the failure threshold
    fresh           \* failure reports begun since the latest pause ran out, or
                    \* since the start; it stops counting at the threshold

qvars == <<jtype, status, hbAge, retryIn, pc, job, sinceReclaim, hbRun, hbWait,
           lastCall, hbFailed, sinceClaim>>
ppvars == <<price_points, left, lastOp>>
cbvars == <<enabled, failure_streak, pauseLeft, cpc, cur, run>>
rlvars == <<tokens60, sinceRefill, recent>>
cavars == <<cache_rows, lastSet>>
\* the components below the rate limiter
jvars == <<jpc, jhb, pj>>
fvars == <<arg, ret>>
tvars == <<th, grants, supply60>>
kvars == <<kc>>
hvars == <<hl>>
svars == <<since, fresh>>
noncache == <<jvars, fvars, tvars, kvars, hvars, svars>>
nonjob == <<cavars, fvars, tvars, kvars, hvars, svars>>
nonfun == <<cavars, jvars, tvars, kvars, hvars, svars>>
nonthread == <<cavars, jvars, fvars, kvars, hvars, svars>>
noncollect == <<jvars, fvars, tvars, hvars, svars>>
nonloop == <<cavars, jvars, fvars, tvars, kvars, svars>>
nonreport == <<cavars, jvars, fvars, tvars, kvars, hvars>>
xvars == <<cavars, jvars, fvars, tvars, kvars, hvars, svars>>
basevars == <<qvars, ppvars, cbvars, rlvars>>
vars == <<basevars, xvars>>

Max(a, b) == IF a >= b THEN a ELSE b
Min(a, b) == IF a <= b THEN a ELSE b

\* ---------------------------------------------------------------- the store

\* the job type a process passes as p_job_type
ClaimType(p) == IF p \in Workers THEN "pricing" ELSE "grading"

\* rows claim_next_pending_job may select: pending, or retryable and due
Eligible(t) ==
    {j \in Jobs : /\ jtype[j] = t
                  /\ \/ status[j] = "pending"
                     \/ status[j] = "retryable" /\ retryIn[j] # Null /\ retryIn[j] <= 0}

\* the rows reclaim_stuck_jobs moves back to pending
Stuck(timeout) == {j \in Jobs : status[j] = "running" /\ hbAge[j] > timeout}

ClaimResultOffByOne(data) == IF Len(data) > 1 THEN data[1] ELSE NoJob

\* claim_next_job: the first row of the RPC's result, None when it is empty
ClaimResult(data) == IF Len(data) > 0 THEN data[1] ELSE NoJob

\* claim_next_pending_job(p_worker_id, p_lock_timeout_seconds, p_job_type): the
\* possible results, each the list of rows the RPC returns; one eligible row is
\* selected, locked and marked running in the same transaction
claim_next_pending_job(t) ==
    IF Eligible(t) = {} THEN {<<>>} ELSE {<<j>> : j \in Eligible(t)}

\* the scrape_jobs columns after the RPC returned data
ClaimedStatus(data) ==
    IF Len(data) > 0 THEN [status EXCEPT ![data[1]] = "running"] ELSE status

ClaimedHbAge(data) ==
    IF Len(data) > 0 THEN [hbAge EXCEPT ![data[1]] = 0] ELSE hbAge

\* reclaim_stuck_jobs(p_lock_timeout_seconds) in the store
ReclaimedStatus(timeout) ==
    [j \in Jobs |-> IF j \in Stuck(timeout) THEN "pending" ELSE status[j]]

\* update_job_status: legacy names are mapped, the row is updated by id alone
StatusName(s) ==
    CASE s = "completed" -> "succeeded"
      [] s = "cancelled" -> "failed"
      [] OTHER -> s

\* ------------------------------------------------------------ the processes

heartbeat_interval_slow(p) == job_lock_timeout_seconds + TimeStep

\* heartbeat_interval of _heartbeat_loop
heartbeat_interval(p) ==
    IF p \in Workers THEN worker_heartbeat_interval ELSE grader_heartbeat_interval

AfterJob(p) == IF p \in Workers THEN "loop" ELSE "claim"

\* p is between claiming j and reporting its outcome
Holding(p, j) == pc[p] \in {"process", "work"} /\ job[p] = j

\* run_worker, top of the loop: the periodic sweep for stuck jobs
ReclaimCheck(p) ==
    /\ UNCHANGED <<ppvars, cbvars, rlvars, xvars>> /\ UNCHANGED sinceClaim
    /\ p \in Workers
    /\ pc[p] = "loop"
    /\ IF sinceReclaim[p] >= reclaim_check_interval
       THEN /\ status' = ReclaimedStatus(job_lock_timeout_seconds)
            /\ hbAge' = [j \in Jobs |->
                           IF j \in Stuck(job_lock_timeout_seconds) THEN 0 ELSE hbAge[j]]
            /\ sinceReclaim' = [sinceReclaim EXCEPT ![p] = 0]
            /\ lastCall' = IF \E q \in Procs, j \in Jobs :
                                 /\ Holding(q, j) /\ hbRun[q] /\ ~hbFailed[q]
                                 /\ status[j] = "running"
                                 /\ j \notin Stuck(job_lock_timeout_seconds)
                           THEN "kept" ELSE "other"
       ELSE UNCHANGED <<status, hbAge, sinceReclaim, lastCall>>
    /\ pc' = [pc EXCEPT ![p] = "claim"]
    /\ UNCHANGED <<jtype, retryIn, job, hbRun, hbWait, hbFailed>>

\* claim_next_job(worker_id), and the branch of the loop on its result
claim_next_job(p) ==
    /\ UNCHANGED <<ppvars, cbvars, rlvars, xvars>>
    /\ pc[p] = "claim"
    /\ \E data \in claim_next_pending_job(ClaimType(p)) :
         /\ status' = ClaimedStatus(data)
         /\ hbAge' = ClaimedHbAge(data)
         /\ job' = [job EXCEPT ![p] = ClaimResult(data)]
         /\ pc' = [pc EXCEPT ![p] =
                      IF ClaimResult(data) # NoJob THEN "process" ELSE AfterJob(p)]
         /\ lastCall' = IF /\ ClaimResult(data) = NoJob
                            /\ \E q \in Procs \ {p}, j \in Jobs :
                                  Holding(q, j) /\ jtype[j] = ClaimType(p)
                         THEN "miss" ELSE "other"
         /\ sinceClaim' = IF ClaimResult(data) # NoJob THEN 0 ELSE sinceClaim
    /\ UNCHANGED <<jtype, retryIn, sinceReclaim, hbRun, hbWait, hbFailed>>

\* process_job: the heartbeat thread is started before anything else; the
\* loop's first update attempt is due at once
StartHeartbeat(p) ==
    /\ UNCHANGED <<ppvars, cbvars, rlvars, xvars>> /\ UNCHANGED sinceClaim
    /\ pc[p] = "process"
    /\ pc' = [pc EXCEPT ![p] = "work"]
    /\ hbRun' = [hbRun EXCEPT ![p] = TRUE]
    /\ hbWait' = [hbWait EXCEPT ![p] = heartbeat_interval(p)]
    /\ UNCHANGED <<jtype, status, hbAge, retryIn, job, sinceReclaim, lastCall,
                   hbFailed>>

\* _heartbeat_loop: one update_job_heartbeat attempt per interval; a failed
\* attempt is logged and the loop goes on
update_job_heartbeat(p) ==
    /\ UNCHANGED <<ppvars, cbvars, rlvars, xvars>> /\ UNCHANGED sinceClaim
    /\ hbRun[p]
    /\ hbWait[p] >= heartbeat_interval(p)
    /\ \E ok \in BOOLEAN :
         IF ok
         THEN /\ hbAge' = [hbAge EXCEPT ![job[p]] = 0]
              /\ UNCHANGED hbFailed
         ELSE /\ hbFailed' = [hbFailed EXCEPT ![p] = TRUE]
              /\ UNCHANGED hbAge
    /\ hbWait' = [hbWait EXCEPT ![p] = 0]
    /\ UNCHANGED <<jtype, status, retryIn, pc, job, sinceReclaim, hbRun, lastCall>>

\* the statuses process_job hands to update_job_status
ReportedStatuses(p) ==
    IF p \in Workers THEN {"succeeded", "failed", "retryable"}
                     ELSE {"succeeded", "failed"}

\* process_job reports the outcome with update_job_status(job_id, status, ...)
update_job_status(p) ==
    /\ UNCHANGED <<ppvars, cbvars, rlvars, xvars>> /\ UNCHANGED sinceClaim
    /\ pc[p] = "work"
    /\ \E s \in ReportedStatuses(p) :
         status' = [status EXCEPT ![job[p]] = StatusName(s)]
    /\ hbAge' = [hbAge EXCEPT ![job[p]] = 0]
    /\ pc' = [pc EXCEPT ![p] = "finally"]
    /\ UNCHANGED <<jtype, retryIn, job, sinceReclaim, hbRun, hbWait, lastCall,
                   hbFailed>>

\* process_job reschedules the job with mark_job_retryable_in(job_id, delay_seconds)
mark_job_retryable_in(p) ==
    /\ UNCHANGED <<ppvars, cbvars, rlvars, xvars>> /\ UNCHANGED sinceClaim
    /\ p \in Workers
    /\ pc[p] = "work"
    /\ \E d \in RetryDelays :
         /\ status' = [status EXCEPT ![job[p]] = "retryable"]
         /\ retryIn' = [retryIn EXCEPT ![job[p]] = d]
    /\ hbAge' = [hbAge EXCEPT ![job[p]] = 0]
    /\ pc' = [pc EXCEPT ![p] = "finally"]
    /\ UNCHANGED <<jtype, job, sinceReclaim, hbRun, hbWait, lastCall, hbFailed>>

\* process_job, finally: the stop event is set and the thread joined
StopHeartbeat(p) ==
    /\ UNCHANGED <<ppvars, cbvars, rlvars, xvars>> /\ UNCHANGED sinceClaim
    /\ pc[p] = "finally"
    /\ pc' = [pc EXCEPT ![p] = AfterJob(p)]
    /\ hbRun' = [hbRun EXCEPT ![p] = FALSE]
    /\ hbWait' = [hbWait EXCEPT ![p] = 0]
    /\ job' = [job EXCEPT ![p] = NoJob]
    /\ hbFailed' = [hbFailed EXCEPT ![p] = FALSE]
    /\ UNCHANGED <<jtype, status, hbAge, retryIn, sinceReclaim, lastCall>>

\* a process is killed while it processes a job: its threads end, its job
\* stays as it is in the store
Crash(p) ==
    /\ UNCHANGED <<ppvars, cbvars, rlvars, xvars>> /\ UNCHANGED sinceClaim
    /\ pc[p] \in {"process", "work"}
    /\ pc' = [pc EXCEPT ![p] = "dead"]
    /\ hbRun' = [hbRun EXCEPT ![p] = FALSE]
    /\ hbWait' = [hbWait EXCEPT ![p] = 0]
    /\ job' = [job EXCEPT ![p] = NoJob]
    /\ hbFailed' = [hbFailed EXCEPT ![p] = FALSE]
    /\ sinceReclaim' = [sinceReclaim EXCEPT ![p] = 0]
    /\ UNCHANGED <<jtype, status, hbAge, retryIn, lastCall>>

\* the process is started again: run_worker / run_grader from the top
Restart(p) ==
    /\ UNCHANGED <<ppvars, cbvars, rlvars, xvars>> /\ UNCHANGED sinceClaim
    /\ pc[p] = "dead"
    /\ pc' = [pc EXCEPT ![p] = AfterJob(p)]
    /\ UNCHANGED <<jtype, status, hbAge, retryIn, job, sinceReclaim, hbRun, hbWait,
                   lastCall, hbFailed>>

AgeUp(a, cap) == IF a > cap THEN a ELSE a + TimeStep

\* TimeStep seconds pass; no running heartbeat loop is past its interval, and
\* no process is between the return of claim_next_job and the start of the
\* heartbeat thread (consecutive statements of the loop)
Tick ==
    /\ UNCHANGED <<ppvars, cbvars, rlvars, xvars>>
    /\ \A p \in Procs : hbRun[p] => hbWait[p] < heartbeat_interval(p)
    /\ \A p \in Procs : pc[p] # "process"
    /\ hbAge' = [j \in Jobs |->
                   IF status[j] = "running"
                   THEN AgeUp(hbAge[j], job_lock_timeout_seconds) ELSE 0]
    /\ retryIn' = [j \in Jobs |->
                     IF retryIn[j] = Null THEN Null ELSE Max(0, retryIn[j] - TimeStep)]
    /\ sinceReclaim' = [p \in Procs |->
                     IF p \in Workers /\ pc[p] # "dead"
                     THEN Min(sinceReclaim[p] + TimeStep, reclaim_check_interval)
                     ELSE sinceReclaim[p]]
    /\ hbWait' = [p \in Procs |-> IF hbRun[p] THEN hbWait[p] + TimeStep ELSE hbWait[p]]
    /\ sinceClaim' = AgeUp(sinceClaim, job_lock_timeout_seconds)
    /\ UNCHANGED <<jtype, status, pc, job, hbRun, lastCall, hbFailed>>

\* ------------------------------------------------------------ price points

\* bounds of the listings handed to insert_price_points
MaxBatch == 2
\* (source_id, dedupe_key) of the listings: two listings of one source and a
\* listing of another source under the dedupe key of the first
ListingKeys == {<<"s1", "ext_a">>, <<"s1", "ext_b">>, <<"s2", "ext_a">>}
Prices == {1000, 1100}
\* match_strength in tenths; Null stands for a listing without the field
Strengths == {5, 9}
default_match_strength == 10

Listings ==
    {[intake_id |-> "i1", source_id |-> k[1], dedupe_key |-> k[2],
      price_cents |-> c, match_strength |-> m] :
        k \in ListingKeys, c \in Prices, m \in Strengths \cup {Null}}

UpsertArgsWrongKey(pp) ==
    [p_intake_id |-> pp.intake_id, p_source_id |-> pp.source_id,
     p_dedupe_key |-> pp.source_id, p_price_cents |-> pp.price_cents,
     p_match_strength |-> IF pp.match_strength = Null
                          THEN default_match_strength ELSE pp.match_strength]

UpsertArgsFullStrength(pp) ==
    [p_intake_id |-> pp.intake_id, p_source_id |-> pp.source_id,
     p_dedupe_key |-> pp.dedupe_key, p_price_cents |-> pp.price_cents,
     p_match_strength |-> default_match_strength]

\* insert_price_points: the arguments of the upsert_price_point call for one
\* listing; match_strength defaults to 1.0
UpsertArgs(pp) ==
    [p_intake_id |-> pp.intake_id, p_source_id |-> pp.source_id,
     p_dedupe_key |-> pp.dedupe_key, p_price_cents |-> pp.price_cents,
     p_match_strength |-> IF pp.match_strength = Null
                          THEN default_match_strength ELSE pp.match_strength]

\* the rows in conflict with (intake_id, source_id, dedupe_key)
RowsOf(rows, i, s, k) ==
    {r \in BagToSet(rows) : r.intake_id = i /\ r.source_id = s /\ r.dedupe_key = k}

\* upsert_price_point in the store: INSERT ... ON CONFLICT (intake_id,
\* source_id, dedupe_key) DO UPDATE where the incoming match_strength is not
\* lower than the stored one
upsert_price_point(rows, a) ==
    LET hit == RowsOf(rows, a.p_intake_id, a.p_source_id, a.p_dedupe_key)
        new == [intake_id |-> a.p_intake_id, source_id |-> a.p_source_id,
                dedupe_key |-> a.p_dedupe_key, price_cents |-> a.p_price_cents,
                match_strength |-> a.p_match_strength]
        old == CHOOSE r \in hit : TRUE
    IN  IF hit = {} THEN rows (+) SetToBag({new})
        ELSE IF a.p_match_strength >= old.match_strength
             THEN (rows (-) SetToBag({old})) (+) SetToBag({new})
             ELSE rows

\* what an upsert of listing pp meets in the store: the "same" listing, a
\* stored row that is stronger than pp ("lower"), or anything else
UpsertKind(pp) ==
    LET hit == RowsOf(price_points, pp.intake_id, pp.source_id, pp.dedupe_key)
    IN  IF \E r \in hit : /\ r.price_cents = pp.price_cents
                          /\ r.match_strength = pp.match_strength
        THEN "same"
        ELSE IF \E r \in hit : /\ pp.match_strength # Null
                                /\ r.match_strength > pp.match_strength
             THEN "lower"
             ELSE "other"

\* insert_price_points(price_points): an empty list returns at once
insert_price_points(p) ==
    /\ left[p] = 0
    /\ \E n \in 0..MaxBatch : left' = [left EXCEPT ![p] = n]
    /\ UNCHANGED <<price_points, lastOp, qvars, cbvars, rlvars, xvars>>

\* one turn of the loop of insert_price_points: the upsert of listing pp; an
\* RPC that raises (ok = FALSE) is logged and the loop goes on
UpsertStep(p, pp, ok) ==
    /\ left[p] > 0
    /\ left' = [left EXCEPT ![p] = left[p] - 1]
    /\ IF ok
       THEN /\ price_points' = upsert_price_point(price_points, UpsertArgs(pp))
            /\ lastOp' = UpsertKind(pp)
       ELSE /\ price_points' = price_points
            /\ lastOp' = "other"
    /\ UNCHANGED <<qvars, cbvars, rlvars, xvars>>

\* ---------------------------------------------------------- circuit breaker

Collectors == {"c1", "c2"}
circuit_breaker_failure_threshold == 5
circuit_breaker_cooldown_seconds == 300
\* bounds: the step of time and the cap of the failure streak
CBStep == 150
MaxStreak == 6

check_source_available_closed_at_now ==
    enabled /\ ~(pauseLeft # Null /\ pauseLeft >= 0)

\* check_source_available: enabled and not paused until a later time
check_source_available ==
    enabled /\ ~(pauseLeft # Null /\ pauseLeft > 0)

ShouldPauseStrict(streak) == streak > circuit_breaker_failure_threshold

\* _update_circuit_breaker: the test on the streak that get_source returned
ShouldPause(streak) == streak >= circuit_breaker_failure_threshold

\* a collector is between the first and the last store call of a failure report
MidReport(c) == cpc[c] \in {"write", "get", "pause"}

\* collect: the circuit breaker check; an unavailable source returns []
CheckBreaker(c) ==
    /\ cpc[c] = "idle"
    /\ cpc' = [cpc EXCEPT ![c] = IF check_source_available THEN "call" ELSE "idle"]
    /\ UNCHANGED <<enabled, failure_streak, pauseLeft, cur, run, qvars, ppvars, rlvars, xvars>>

\* collect: _collect_impl returned; _update_circuit_breaker(True) calls
\* update_source_stats(source_id, True), one update of the row
ReportSuccess(c) ==
    /\ cpc[c] = "call"
    /\ failure_streak' = 0
    /\ cpc' = [cpc EXCEPT ![c] = "idle"]
    /\ run' = IF (\E d \in Collectors : MidReport(d)) \/ ~check_source_available
              THEN Null ELSE 0
    /\ since' = Cardinality({d \in Collectors : MidReport(d)})
    /\ fresh' = fresh
    /\ UNCHANGED <<enabled, pauseLeft, cur, qvars, ppvars, rlvars, nonreport>>

\* collect: _collect_impl raised; update_source_stats(source_id, False)
\* reads the current streak
ReadStreak(c) ==
    /\ cpc[c] = "call"
    /\ failure_streak < MaxStreak
    /\ cur' = [cur EXCEPT ![c] = failure_streak]
    /\ cpc' = [cpc EXCEPT ![c] = "write"]
    /\ run' = IF \E d \in Collectors : MidReport(d) THEN Null ELSE run
    /\ since' = Min(since + 1, circuit_breaker_failure_threshold)
    /\ fresh' = Min(fresh + 1, circuit_breaker_failure_threshold)
    /\ UNCHANGED <<enabled, failure_streak, pauseLeft, qvars, ppvars, rlvars, nonreport>>

\* update_source_stats(source_id, False) writes the streak it read plus one
WriteStreak(c) ==
    /\ cpc[c] = "write"
    /\ failure_streak' = cur[c] + 1
    /\ cpc' = [cpc EXCEPT ![c] = "get"]
    /\ cur' = [cur EXCEPT ![c] = 0]
    /\ UNCHANGED <<enabled, pauseLeft, run, qvars, ppvars, rlvars, xvars>>

\* the value of run after one more failure report has completed
RunAfter == IF run = Null \/ run >= circuit_breaker_failure_threshold
            THEN Null ELSE run + 1

\* _update_circuit_breaker(False) reads the source back with get_source
GetSource(c) ==
    /\ cpc[c] = "get"
    /\ IF ShouldPause(failure_streak)
       THEN /\ cpc' = [cpc EXCEPT ![c] = "pause"]
            /\ run' = run
       ELSE /\ cpc' = [cpc EXCEPT ![c] = "idle"]
            /\ run' = RunAfter
    /\ UNCHANGED <<enabled, failure_streak, pauseLeft, cur, qvars, ppvars, rlvars, xvars>>

\* _update_circuit_breaker(False) sets paused_until = now + cooldown
PauseWrite(c) ==
    /\ cpc[c] = "pause"
    /\ pauseLeft' = circuit_breaker_cooldown_seconds
    /\ cpc' = [cpc EXCEPT ![c] = "idle"]
    /\ run' = RunAfter
    /\ UNCHANGED <<enabled, failure_streak, cur, qvars, ppvars, rlvars, xvars>>

\* the last store call of a failure report of c is taken
ReportDone(c) == PauseWrite(c) \/ (GetSource(c) /\ cpc'[c] = "idle")

\* CBStep seconds pass
CBTick ==
    /\ pauseLeft # Null /\ pauseLeft > 0
    /\ pauseLeft' = Max(0, pauseLeft - CBStep)
    /\ fresh' = IF pauseLeft' = 0 THEN 0 ELSE fresh
    /\ since' = since
    /\ UNCHANGED <<enabled, failure_streak, cpc, cur, run, qvars, ppvars, rlvars, nonreport>>

\* -------------------------------------------------------------- rate limiter

\* bounds: rate_per_minute of the limiter and the step of time
RatePerMinute == 2
RLStep == 10
Minute == 60

\* acquire: the bucket after the refill for the elapsed time
Refilled(tokens, elapsed) ==
    IF elapsed >= Minute THEN RatePerMinute * Minute
    ELSE Min(RatePerMinute * Minute, tokens + elapsed * RatePerMinute)

\* RateLimiter.acquire(): refill, then take one token if there is one
acquire ==
    LET tokens == Refilled(tokens60, sinceRefill)
    IN  /\ sinceRefill' = 0
        /\ IF tokens >= Minute
           THEN /\ tokens60' = tokens - Minute
                /\ recent' = Append(recent, 0)
           ELSE /\ tokens60' = tokens
                /\ recent' = recent
        /\ UNCHANGED <<qvars, ppvars, cbvars, xvars>>

\* RLStep seconds pass
RLTick ==
    /\ sinceRefill' = Min(Minute, sinceRefill + RLStep)
    /\ recent' = SelectSeq([i \in 1..Len(recent) |-> recent[i] + RLStep],
                           LAMBDA a : a < Minute)
    /\ UNCHANGED <<tokens60, qvars, ppvars, cbvars, xvars>>

\* --------------------------------------------------------------------- cache

cache_enabled == TRUE
cache_ttl_seconds == 3600
\* bound: the step of time of the cache
CacheStep == 1800
CacheKeys == {"k1", "k2"}
CacheValues == {"r1", "r2"}
\* ttl_seconds handed to Cache.set; Null stands for the omitted argument
CacheTtls == {Null, 0, CacheStep}

\* json.dumps and json.loads on the cached documents
json_dumps(v) == <<"json", v>>
json_loads(text) == text[2]

NoRow == [value |-> <<>>, left |-> 0]
Absent == "None"
NoSet == [value |-> Absent, ttl |-> Null, age |-> 0]

\* Cache.get(key): the row's value if expires_at > now, else None
CacheGet(key) ==
    IF ~cache_enabled THEN Absent
    ELSE IF cache_rows[key] # NoRow /\ cache_rows[key].left > 0
         THEN json_loads(cache_rows[key].value)
         ELSE Absent

\* Cache.set: ttl = ttl_seconds or settings.cache_ttl_seconds
EffectiveTtl(ttl_seconds) ==
    IF ttl_seconds = Null \/ ttl_seconds = 0 THEN cache_ttl_seconds ELSE ttl_seconds

\* Cache.set(key, value, ttl_seconds): INSERT OR REPLACE with expires_at = now + ttl
CacheSet(key, value, ttl_seconds) ==
    /\ cache_enabled
    /\ cache_rows' = [cache_rows EXCEPT ![key] =
                         [value |-> json_dumps(value), left |-> EffectiveTtl(ttl_seconds)]]
    /\ lastSet' = [lastSet EXCEPT ![key] =
                      [value |-> value, ttl |-> ttl_seconds, age |-> 0]]
    /\ UNCHANGED <<basevars, noncache>>

\* Cache.clear_expired(): DELETE FROM cache WHERE expires_at <= now
clear_expired ==
    /\ cache_rows' = [k \in CacheKeys |->
                         IF cache_rows[k] # NoRow /\ cache_rows[k].left <= 0
                         THEN NoRow ELSE cache_rows[k]]
    /\ UNCHANGED <<lastSet, basevars, noncache>>

\* CacheStep seconds pass
CacheTick ==
    /\ cache_rows' = [k \in CacheKeys |->
                         IF cache_rows[k] = NoRow THEN NoRow
                         ELSE [cache_rows[k] EXCEPT !.left = Max(0, @ - CacheStep)]]
    /\ lastSet' = [k \in CacheKeys |->
                      IF lastSet[k] = NoSet \/ lastSet[k].age >= cache_ttl_seconds
                      THEN lastSet[k]
                      ELSE [lastSet[k] EXCEPT !.age = @ + CacheStep]]
    /\ UNCHANGED <<basevars, noncache>>

\* Cache._init_db on a new database file
InitCache ==
    /\ cache_rows = [k \in CacheKeys |-> NoRow]
    /\ lastSet = [k \in CacheKeys |-> NoSet]

\* ---------------------------------------------------------------- process_job

\* source ids of the jobs, as the words they are made of: one row exists in
\* sources, the others are ids of no row
ExistingSource == <<"src", "1">>
SourceIds == {ExistingSource, <<"src", "0">>, <<"src", "429">>}
\* what the provider does when it is called
ProviderOutcomes == {"listings", "empty", "auth_error", "rate_limit", "timeout"}
\* the words process_job looks for in the text of an exception
TransientMarks == {"timeout", "connection", "temporary", "rate limit", "429"}
rate_limit_pause_seconds == 3600
default_unavailable_delay == 300
min_unavailable_delay == 30
\* the values a running pause is observed at as time passes
PauseMarks == {0, 1, 120}

\* text (a sequence of words) contains the word
Contains(text, word) == \E i \in 1..Len(text) : text[i] = word


\* process_job, except Exception: the transient-error test on str(e)
IsRetryable(text) == \E w \in TransientMarks : Contains(text, w)

\* the job record of a worker before process_job has done anything
NewJob(source_id) ==
    [source_id |-> source_id, status |-> "running", delay |-> Null, calls |-> 0,
     message |-> <<>>, invoked |-> FALSE, result |-> "none", seen |-> Null,
     persisted |-> FALSE, returned |-> <<>>, scheduled |-> 0,
     upsert_failed |-> FALSE]

AfterTryEarlyReturn(p) == IF jpc[p] = "resolve" THEN "idle" ELSE "finally"

\* every return and every handled exception inside the try of process_job
\* goes through its finally clause
AfterTry(p) == "finally"

\* update_job_status(job_id, status, error_message) as process_job calls it
SetStatus(p, s, text) ==
    [pj EXCEPT ![p].status = StatusName(s), ![p].message = text,
               ![p].calls = Min(2, pj[p].calls + 1)]

\* mark_job_retryable_in(job_id, delay_seconds, error_message)
SetRetryableIn(p, d, text) ==
    [pj EXCEPT ![p].status = "retryable", ![p].delay = d, ![p].message = text,
               ![p].scheduled = Min(2, pj[p].scheduled + 1)]

\* process_job up to the start of the heartbeat thread
JobStart(p) ==
    /\ jpc[p] = "idle"
    /\ \E s \in SourceIds : pj' = [pj EXCEPT ![p] = NewJob(s)]
    /\ jhb' = [jhb EXCEPT ![p] = TRUE]
    /\ jpc' = [jpc EXCEPT ![p] = "resolve"]
    /\ UNCHANGED <<basevars, nonjob>>

ResolveSourceIgnoringEnabled(p) ==
    /\ jpc[p] = "resolve"
    /\ IF pj[p].source_id # ExistingSource
       THEN /\ pj' = [pj EXCEPT ![p].message = <<"Source not found:">> \o pj[p].source_id]
            /\ jpc' = [jpc EXCEPT ![p] = "except"]
       ELSE /\ pj' = pj
            /\ jpc' = [jpc EXCEPT ![p] = "collect"]
    /\ UNCHANGED <<jhb, basevars, nonjob>>

\* get_source(source_id); a missing source raises, a disabled one fails the job
ResolveSource(p) ==
    /\ jpc[p] = "resolve"
    /\ IF pj[p].source_id # ExistingSource
       THEN /\ pj' = [pj EXCEPT ![p].message = <<"Source not found:">> \o pj[p].source_id]
            /\ jpc' = [jpc EXCEPT ![p] = "except"]
       ELSE IF ~enabled
       THEN /\ pj' = SetStatus(p, "failed", <<"Source is disabled">>)
            /\ jpc' = [jpc EXCEPT ![p] = AfterTry(p)]
       ELSE /\ pj' = pj
            /\ jpc' = [jpc EXCEPT ![p] = "collect"]
    /\ UNCHANGED <<jhb, basevars, nonjob>>

\* the text of the exceptions raised while a job is processed
RateLimitText == <<"eBay", "rate limit", "exceeded">>
StoreErrorTexts == {<<"connection", "reset">>, <<"invalid", "input">>}

\* process_job, except around collect: the test for an eBay authentication error
IsAuthFailure(text) ==
    \/ Contains(text, "Authentication failed")
    \/ Contains(text, "Invalid Application")
    \/ Contains(text, "AppID")

\* EbayCollector._collect_impl: what collect sees for each provider outcome;
\* every exception but the rate-limit error is logged and turned into []
CollectImpl(o) ==
    CASE o = "listings" -> "listings"
      [] o = "empty" -> "empty"
      [] o = "rate_limit" -> "raise"
      [] OTHER -> "swallowed"

\* the failure streak and the pause after _update_circuit_breaker(False)
StreakAfterFailure == failure_streak + 1
PauseAfterFailure ==
    IF ShouldPause(StreakAfterFailure) THEN circuit_breaker_cooldown_seconds
    ELSE pauseLeft

\* the list collect hands back to process_job: [] when the source is
\* unavailable, else what _collect_impl returned
CollectReturn(result) ==
    IF result = "skipped" THEN <<>>
    ELSE IF CollectImpl(result) = "listings" THEN <<"listing">>
    ELSE <<>>

\* collector.collect(query_params, ...): circuit breaker check, provider call,
\* circuit breaker update
Collect(p) ==
    /\ jpc[p] = "collect"
    /\ IF ~check_source_available
       THEN /\ pj' = [pj EXCEPT ![p].invoked = TRUE, ![p].result = "skipped",
                                ![p].returned = CollectReturn("skipped")]
            /\ jpc' = [jpc EXCEPT ![p] = "empty"]
            /\ UNCHANGED <<failure_streak, pauseLeft, enabled>>
       ELSE \E o \in ProviderOutcomes :
              /\ pj' = [pj EXCEPT ![p].invoked = TRUE, ![p].result = o,
                                  ![p].returned = IF CollectImpl(o) = "raise" THEN <<>>
                                                  ELSE CollectReturn(o)]
              /\ IF CollectImpl(o) = "raise"
                 THEN /\ failure_streak < MaxStreak
                      /\ failure_streak' = StreakAfterFailure
                      /\ pauseLeft' = PauseAfterFailure
                      /\ IF IsAuthFailure(RateLimitText)
                         THEN enabled' = FALSE /\ jpc' = [jpc EXCEPT ![p] = "except"]
                         ELSE enabled' = enabled /\ jpc' = [jpc EXCEPT ![p] = "ratelimited"]
                 ELSE /\ failure_streak' = 0
                      /\ UNCHANGED <<pauseLeft, enabled>>
                      /\ jpc' = [jpc EXCEPT ![p] =
                                    IF CollectReturn(o) # <<>> THEN "persist" ELSE "empty"]
    /\ UNCHANGED <<jhb, cpc, cur, run, qvars, ppvars, rlvars, nonjob>>

\* process_job, nothing collected: check_source_available(source_id)
EmptyCheck(p) ==
    /\ jpc[p] = "empty"
    /\ IF check_source_available
       THEN /\ pj' = SetStatus(p, "succeeded", <<>>)
            /\ jpc' = [jpc EXCEPT ![p] = AfterTry(p)]
       ELSE /\ pj' = pj
            /\ jpc' = [jpc EXCEPT ![p] = "unavailable"]
    /\ UNCHANGED <<jhb, basevars, nonjob>>

\* process_job: the delay for a source whose paused_until is paused seconds away
UnavailableDelay(paused) ==
    IF paused = Null THEN default_unavailable_delay
    ELSE Max(min_unavailable_delay, paused)

\* process_job, source unavailable: get_source_pause_until and
\* mark_job_retryable_in(job_id, delay_seconds=delay)
Unavailable(p) ==
    /\ jpc[p] = "unavailable"
    /\ pj' = [SetRetryableIn(p, UnavailableDelay(pauseLeft), <<"Source unavailable">>)
                 EXCEPT ![p].seen = pauseLeft]
    /\ jpc' = [jpc EXCEPT ![p] = AfterTry(p)]
    /\ UNCHANGED <<jhb, basevars, nonjob>>

PauseSourceAtThreshold(p) ==
    /\ jpc[p] = "ratelimited"
    /\ pauseLeft' = IF ShouldPause(failure_streak) THEN rate_limit_pause_seconds
                    ELSE pauseLeft
    /\ jpc' = [jpc EXCEPT ![p] = "reschedule"]
    /\ UNCHANGED <<pj, jhb, enabled, failure_streak, cpc, cur, run, qvars, ppvars,
                   rlvars, nonjob>>

\* process_job, except EbayRateLimitError: pause_source(source_id, seconds=3600)
PauseSource(p) ==
    /\ jpc[p] = "ratelimited"
    /\ pauseLeft' = rate_limit_pause_seconds
    /\ jpc' = [jpc EXCEPT ![p] = "reschedule"]
    /\ UNCHANGED <<pj, jhb, enabled, failure_streak, cpc, cur, run, qvars, ppvars,
                   rlvars, nonjob>>

\* process_job, except EbayRateLimitError: mark_job_retryable_in(job_id, 3600)
Reschedule(p) ==
    /\ jpc[p] = "reschedule"
    /\ pj' = SetRetryableIn(p, rate_limit_pause_seconds, RateLimitText)
    /\ jpc' = [jpc EXCEPT ![p] = AfterTry(p)]
    /\ UNCHANGED <<jhb, basevars, nonjob>>

\* process_job: insert_price_points(price_points); an upsert_price_point call
\* that fails is logged inside insert_price_points, which goes on with the
\* next listing and returns normally
Persist(p) ==
    /\ jpc[p] = "persist"
    /\ \E failed \in BOOLEAN :
          pj' = [pj EXCEPT ![p].persisted = TRUE, ![p].upsert_failed = failed]
    /\ jpc' = [jpc EXCEPT ![p] = "valuate"]
    /\ UNCHANGED <<jhb, basevars, nonjob>>

\* compute_valuation(self, price_points) called with attribution=attribution
ValuationErrorText ==
    <<"compute_valuation()", "got an unexpected keyword argument", "'attribution'">>

\* process_job: the price points of the intake are read, then compute_valuation
\* is called with a keyword it does not take; either a store call raises or the
\* call does, so upsert_valuation and the final update_job_status are never
\* reached
Valuate(p) ==
    /\ jpc[p] = "valuate"
    /\ \E text \in StoreErrorTexts \cup {ValuationErrorText} :
          pj' = [pj EXCEPT ![p].message = text]
    /\ jpc' = [jpc EXCEPT ![p] = "except"]
    /\ UNCHANGED <<jhb, basevars, nonjob>>

\* process_job, except Exception: retryable for a transient error, else failed
HandleException(p) ==
    /\ jpc[p] = "except"
    /\ pj' = SetStatus(p, IF IsRetryable(pj[p].message) THEN "retryable" ELSE "failed",
                       pj[p].message)
    /\ jpc' = [jpc EXCEPT ![p] = AfterTry(p)]
    /\ UNCHANGED <<jhb, basevars, nonjob>>

\* process_job, finally: heartbeat_stop.set() and heartbeat_thread.join(timeout=2)
Finally(p) ==
    /\ jpc[p] = "finally"
    /\ jhb' = [jhb EXCEPT ![p] = FALSE]
    /\ jpc' = [jpc EXCEPT ![p] = "idle"]
    /\ UNCHANGED <<pj, basevars, nonjob>>

\* time passes while a pause is running: the pause has run down to the next
\* mark
JobTick ==
    /\ pauseLeft # Null
    /\ \E x \in PauseMarks :
          /\ x < pauseLeft
          /\ \A y \in PauseMarks : y < pauseLeft => y <= x
          /\ pauseLeft' = x
    /\ UNCHANGED <<jvars, enabled, failure_streak, cpc, cur, run, qvars, ppvars,
                   rlvars, nonjob>>

\* the positions of process_job inside its try block
InTry == {"resolve", "collect", "empty", "unavailable", "ratelimited", "reschedule",
          "persist", "valuate", "except"}

\* KeyboardInterrupt in the main thread: between jobs run_worker leaves its
\* loop; inside the try block of process_job no except clause catches it
\* (except Exception does not), so the job's finally clause is next
Interrupt(p) ==
    /\ jpc[p] \in InTry \cup {"idle"}
    /\ IF jpc[p] = "idle"
       THEN /\ jpc' = [jpc EXCEPT ![p] = "stopped"]
            /\ pj' = pj
       ELSE /\ jpc' = [jpc EXCEPT ![p] = "unwinding"]
            /\ pj' = [pj EXCEPT ![p].message = <<"KeyboardInterrupt">>]
    /\ UNCHANGED <<jhb, basevars, nonjob>>

\* the finally clause of process_job with the interrupt pending, then
\* run_worker: except KeyboardInterrupt: break, and its own finally clause
Unwind(p) ==
    /\ jpc[p] = "unwinding"
    /\ jhb' = [jhb EXCEPT ![p] = FALSE]
    /\ jpc' = [jpc EXCEPT ![p] = "stopped"]
    /\ UNCHANGED <<pj, basevars, nonjob>>

\* the grader's process_job up to the start of the heartbeat thread
GradeStart(g) ==
    /\ jpc[g] = "idle"
    /\ pj' = [pj EXCEPT ![g] = NewJob(ExistingSource)]
    /\ jhb' = [jhb EXCEPT ![g] = TRUE]
    /\ jpc' = [jpc EXCEPT ![g] = "grade"]
    /\ UNCHANGED <<basevars, nonjob>>

GradeOutcomes == {"no_images", "no_estimate", "graded", "error"}

\* the grader's process_job, the try block: two early returns that fail the job,
\* the success at its end, or an exception
Grade(g) ==
    /\ jpc[g] = "grade"
    /\ \E o \in GradeOutcomes :
          CASE o = "no_images" ->
                 /\ pj' = SetStatus(g, "failed", <<"No coin images found">>)
                 /\ jpc' = [jpc EXCEPT ![g] = "finally"]
            [] o = "no_estimate" ->
                 /\ pj' = SetStatus(g, "failed", <<"Grade estimation failed">>)
                 /\ jpc' = [jpc EXCEPT ![g] = "finally"]
            [] o = "graded" ->
                 /\ pj' = SetStatus(g, "succeeded", <<>>)
                 /\ jpc' = [jpc EXCEPT ![g] = "finally"]
            [] OTHER ->
                 /\ pj' = [pj EXCEPT ![g].message = <<"error">>]
                 /\ jpc' = [jpc EXCEPT ![g] = "except"]
    /\ UNCHANGED <<jhb, basevars, nonjob>>

\* the grader's process_job, except Exception: the job fails
GradeException(g) ==
    /\ jpc[g] = "except"
    /\ pj' = SetStatus(g, "failed", pj[g].message)
    /\ jpc' = [jpc EXCEPT ![g] = "finally"]
    /\ UNCHANGED <<jhb, basevars, nonjob>>

\* the grader's process_job, finally: heartbeat_stop.set() and
\* heartbeat_thread.join(timeout=2)
GradeFinally(g) ==
    /\ jpc[g] = "finally"
    /\ jhb' = [jhb EXCEPT ![g] = FALSE]
    /\ jpc' = [jpc EXCEPT ![g] = "idle"]
    /\ UNCHANGED <<pj, basevars, nonjob>>

\* no process has a job in hand
InitJob ==
    /\ jpc = [p \in Procs |-> "idle"]
    /\ jhb = [p \in Procs |-> FALSE]
    /\ pj = [p \in Procs |-> NewJob(ExistingSource)]

\* ------------------------------------------------------- update_job_status

Services == {"worker", "grader"}
StatusArgs ==
    {"pending", "running", "retryable", "succeeded", "failed", "completed", "cancelled"}
ErrorArgs == {Absent, "", "boom"}

\* the rows of scrape_jobs an update may meet
JobRows ==
    [status : {"pending", "running", "retryable", "succeeded", "failed"},
     completed_at : {"null", "earlier"},
     error_message : {"null", "old"}]

\* no call made yet
NoCall == [fn |-> "none"]

\* Python's truth value of an optional string
Truthy(x) == x # Absent /\ x # ""

\* the status written: the worker maps the legacy names, the grader does not
WrittenStatus(service, s) == IF service = "worker" THEN StatusName(s) ELSE s

update_data_always_completed(service, s, err) ==
    [status |-> WrittenStatus(service, s),
     completed_at |-> "now",
     error_message |-> IF Truthy(err) THEN err ELSE "unwritten"]

\* update_job_status: the columns of the update, "unwritten" for a column that
\* is left out
update_data(service, s, err) ==
    [status |-> WrittenStatus(service, s),
     completed_at |-> IF WrittenStatus(service, s) \in {"succeeded", "failed"}
                      THEN "now" ELSE "unwritten",
     error_message |-> IF Truthy(err) THEN err ELSE "unwritten"]

\* the row after .update(update_data).eq("id", job_id)
UpdatedRow(row, u) ==
    [status |-> u.status,
     completed_at |-> IF u.completed_at = "unwritten" THEN row.completed_at
                      ELSE u.completed_at,
     error_message |-> IF u.error_message = "unwritten" THEN row.error_message
                       ELSE u.error_message]

\* update_job_status(job_id, status, error_message) of either service
CallUpdateJobStatus ==
    /\ \E service \in Services, row \in JobRows, s \in StatusArgs, err \in ErrorArgs :
          /\ arg' = [fn |-> "update_job_status", service |-> service, row |-> row,
                     status |-> s, error_message |-> err]
          /\ ret' = [fn |-> "update_job_status",
                     update_data |-> update_data(service, s, err),
                     row |-> UpdatedRow(row, update_data(service, s, err))]
    /\ UNCHANGED <<basevars, nonfun>>

InitFun == arg = NoCall /\ ret = NoCall

\* ------------------------------------------------------- compute_valuation

MaxPoints == 3
\* a price point as compute_valuation reads it; filtered_out may be missing
PricePoints ==
    [price_cents : {0, 1000, 9000}, filtered_out : {"true", "false", "missing"},
     price_type : {"sold", "ask"}]
PointLists == UNION {[1..n -> PricePoints] : n \in 0..MaxPoints}

RECURSIVE Insert(_, _)
Insert(x, sorted) ==
    IF sorted = <<>> \/ x <= Head(sorted) THEN <<x>> \o sorted
    ELSE <<Head(sorted)>> \o Insert(x, Tail(sorted))

RECURSIVE sorted(_)
\* Python's sorted on a list of numbers
sorted(xs) == IF xs = <<>> THEN <<>> ELSE Insert(Head(xs), sorted(Tail(xs)))

RECURSIVE Sum(_)
Sum(xs) == IF xs = <<>> THEN 0 ELSE Head(xs) + Sum(Tail(xs))

Count(xs, P(_)) == Len(SelectSeq(xs, P))

valid_points_unfiltered(pps) == pps

\* compute_valuation: [pp for pp in price_points if not pp.get('filtered_out', False)]
valid_points(pps) ==
    SelectSeq(pps, LAMBDA pp : pp.filtered_out # "true")

RECURSIVE PricesOf(_)
\* compute_valuation: [pp['price_cents'] for pp in valid_points if pp.get('price_cents')]
PricesOf(points) ==
    IF points = <<>> THEN <<>>
    ELSE (IF Head(points).price_cents # 0 THEN <<Head(points).price_cents>> ELSE <<>>)
            \o PricesOf(Tail(points))

\* _filter_outliers, method iqr; the bounds q1 - 1.5 iqr and q3 + 1.5 iqr are
\* compared doubled
_filter_outliers(prices) ==
    IF Len(prices) < 3 THEN prices
    ELSE LET sp == sorted(prices)
             q1 == sp[(Len(sp) \div 4) + 1]
             q3 == sp[((3 * Len(sp)) \div 4) + 1]
             iqr == q3 - q1
         IN  SelectSeq(prices, LAMBDA p : 2 * q1 - 3 * iqr <= 2 * p
                                            /\ 2 * p <= 2 * q3 + 3 * iqr)

\* _compute_percentiles
_compute_percentiles(prices) ==
    IF prices = <<>> THEN [p10 |-> Null, median |-> Null, p90 |-> Null, mean |-> Null]
    ELSE LET sp == sorted(prices)
             n == Len(sp)
         IN  [p10 |-> sp[((n - 1) \div 10) + 1],
              median |-> sp[((n - 1) \div 2) + 1],
              p90 |-> sp[((9 * (n - 1)) \div 10) + 1],
              mean |-> Sum(sp) \div n]

\* _compute_confidence_score of an engine that knows no source
_compute_confidence_score(points, pct, comp_count) ==
    LET comps == IF comp_count >= 20 THEN 3 ELSE IF comp_count >= 10 THEN 2
                 ELSE IF comp_count >= 5 THEN 1 ELSE 0
        sold == Count(points, LAMBDA pp : pp.price_type = "sold")
        ask == Count(points, LAMBDA pp : pp.price_type = "ask")
        total == sold + ask
        ratio == IF total = 0 THEN comps
                 ELSE IF 5 * sold >= 4 * total THEN comps + 2
                 ELSE IF 2 * sold >= total THEN comps + 1
                 ELSE Min(comps, 7)
        spread == IF pct.median \in {Null, 0} \/ pct.p10 \in {Null, 0} \/ pct.p90 \in {Null, 0}
                  THEN 0
                  ELSE IF 5 * (pct.p90 - pct.p10) < pct.median THEN 3
                  ELSE IF 5 * (pct.p90 - pct.p10) < 2 * pct.median THEN 2
                  ELSE IF 5 * (pct.p90 - pct.p10) < 3 * pct.median THEN 1
                  ELSE 0
    IN  Max(1, Min(10, ratio + spread))

\* ValuationEngine.compute_valuation
compute_valuation(pps) ==
    LET vp == valid_points(pps) IN
    IF vp = <<>>
    THEN [price_cents_p10 |-> Null, price_cents_median |-> Null,
          price_cents_p90 |-> Null, price_cents_mean |-> Null,
          confidence_score |-> 1, comp_count |-> 0, sold_count |-> 0, ask_count |-> 0]
    ELSE LET filtered_prices == _filter_outliers(PricesOf(vp))
             pct == _compute_percentiles(filtered_prices)
         IN  [price_cents_p10 |-> pct.p10, price_cents_median |-> pct.median,
              price_cents_p90 |-> pct.p90, price_cents_mean |-> pct.mean,
              confidence_score |-> _compute_confidence_score(vp, pct, Len(filtered_prices)),
              comp_count |-> Len(filtered_prices),
              sold_count |-> Count(vp, LAMBDA pp : pp.price_type = "sold"),
              ask_count |-> Count(vp, LAMBDA pp : pp.price_type = "ask")]

\* engine.compute_valuation(price_points), one call of a fresh engine
CallComputeValuation ==
    /\ arg = NoCall
    /\ \E points \in PointLists :
          /\ arg' = [fn |-> "compute_valuation", price_points |-> points]
          /\ ret' = [fn |-> "compute_valuation", valuation |-> compute_valuation(points)]
    /\ UNCHANGED <<basevars, nonfun>>

\* ------------------------------------------- threads sharing a RateLimiter

Threads == {"t1", "t2"}
\* bound: calls each thread makes
MaxCalls == 2
\* RateLimiter.__init__: min_interval = 60.0 / rate_per_minute
min_interval == Minute \div RatePerMinute

IdleThread ==
    [pc |-> "idle", call |-> "none", tries |-> 0, loaded |-> 0, sleep |-> 0,
     acquired |-> 0, n |-> 0]

\* a thread calls acquire() or wait_if_needed()
Call(t, fn) ==
    /\ th[t].pc = "idle"
    /\ th[t].n < MaxCalls
    /\ th' = [th EXCEPT ![t] = [pc |-> "refill", call |-> fn, tries |-> 1, loaded |-> 0,
                                sleep |-> 0, acquired |-> 0, n |-> th[t].n + 1]]
    /\ UNCHANGED <<grants, supply60, basevars, nonthread>>

\* acquire: the refill for the elapsed time, last_refill = now
AcquireRefill(t) ==
    /\ th[t].pc = "refill"
    /\ tokens60' = Refilled(tokens60, sinceRefill)
    /\ sinceRefill' = 0
    /\ supply60' = supply60 + (Refilled(tokens60, sinceRefill) - tokens60)
    /\ th' = [th EXCEPT ![t].pc = "test"]
    /\ UNCHANGED <<grants, recent, qvars, ppvars, cbvars, nonthread>>

\* acquire: if self.tokens >= 1.0, else return False; a wait_if_needed whose
\* first acquire failed computes its wait, one whose second failed returns
AcquireTest(t) ==
    /\ th[t].pc = "test"
    /\ th' = [th EXCEPT ![t].pc =
                 IF tokens60 >= Minute THEN "load"
                 ELSE IF th[t].call = "wait_if_needed" /\ th[t].tries = 1 THEN "calc"
                 ELSE "returned"]
    /\ UNCHANGED <<grants, supply60, basevars, nonthread>>

\* acquire: self.tokens -= 1.0, the read
AcquireLoad(t) ==
    /\ th[t].pc = "load"
    /\ th' = [th EXCEPT ![t].pc = "store", ![t].loaded = tokens60]
    /\ UNCHANGED <<grants, supply60, basevars, nonthread>>

\* acquire: self.tokens -= 1.0, the write, and return True
AcquireStore(t) ==
    /\ th[t].pc = "store"
    /\ tokens60' = th[t].loaded - Minute
    /\ grants' = grants + 1
    /\ th' = [th EXCEPT ![t].pc = "returned", ![t].acquired = th[t].acquired + 1]
    /\ UNCHANGED <<supply60, sinceRefill, recent, qvars, ppvars, cbvars, nonthread>>

\* wait_if_needed: wait_time = min_interval - (time.time() - last_refill)
WaitTime(t) ==
    /\ th[t].pc = "calc"
    /\ th' = [th EXCEPT ![t].pc = IF min_interval - sinceRefill > 0 THEN "sleep"
                                  ELSE "returned",
                        ![t].sleep = Max(0, min_interval - sinceRefill)]
    /\ UNCHANGED <<grants, supply60, basevars, nonthread>>

\* wait_if_needed: time.sleep(wait_time) is over, self.acquire() once more
WakeUp(t) ==
    /\ th[t].pc = "sleep"
    /\ th[t].sleep = 0
    /\ th' = [th EXCEPT ![t].pc = "refill", ![t].tries = 2]
    /\ UNCHANGED <<grants, supply60, basevars, nonthread>>

\* the caller goes on after the call has returned
Returned(t) ==
    /\ th[t].pc = "returned"
    /\ th' = [th EXCEPT ![t].pc = "idle"]
    /\ UNCHANGED <<grants, supply60, basevars, nonthread>>

\* RLStep seconds pass for the bucket and for the sleeping threads; the
\* statements of acquire and wait_if_needed take no time on this scale
ThreadTick ==
    /\ \A t \in Threads : th[t].pc \in {"idle", "sleep", "returned"}
    /\ sinceRefill' = Min(Minute, sinceRefill + RLStep)
    /\ th' = [t \in Threads |-> [th[t] EXCEPT !.sleep = Max(0, th[t].sleep - RLStep)]]
    /\ UNCHANGED <<grants, supply60, tokens60, recent, qvars, ppvars, cbvars, nonthread>>

\* RateLimiter.__init__: a full bucket, no thread in a call
InitThreads ==
    /\ th = [t \in Threads |-> IdleThread]
    /\ grants = 0
    /\ supply60 = RatePerMinute * Minute

\* ------------------------------------------------- BaseCollector.collect

\* the document of a fetch that found no listings
EmptyList == "[]"

\* the jobs that call collect; their query_params carry the job's job_id,
\* intake_id and source_id
CollectJobs == {"job1", "job2"}

\* the listings _collect_impl builds for a job: every price point is stamped
\* with query_params.get('source_id'), ('intake_id') and ('job_id')
ListingsFor(j) == IF j = "job1" THEN "r1" ELSE "r2"

\* the job whose ids the listings of a document carry
StampOf(doc) == IF doc = "r1" THEN "job1" ELSE "job2"

NoCollect ==
    [pc |-> "idle", key |-> "k1", job |-> "job1", hit |-> FALSE, did |-> {},
     returned |-> Absent]

\* what _collect_impl returns to collect for a provider outcome that does not
\* raise
FetchResults(o, j) == IF CollectImpl(o) = "listings" THEN {ListingsFor(j)} ELSE {EmptyList}

\* collect(query_params) is called; _get_cache_key gives the key, made of the
\* source and the coin's year, mintmark, denomination, series and title
CollectStart ==
    /\ kc.pc = "idle"
    /\ \E k \in CacheKeys, j \in CollectJobs :
          kc' = [NoCollect EXCEPT !.pc = "breaker", !.key = k, !.job = j]
    /\ UNCHANGED <<basevars, cavars, noncollect>>

\* collect going on to the cache whatever _check_circuit_breaker says
CollectBreakerIgnored ==
    /\ kc.pc = "breaker"
    /\ kc' = [kc EXCEPT !.pc = "cache"]
    /\ UNCHANGED <<basevars, cavars, noncollect>>

\* collect: if not self._check_circuit_breaker(): return []
CollectBreaker ==
    /\ kc.pc = "breaker"
    /\ kc' = IF check_source_available THEN [kc EXCEPT !.pc = "cache"]
             ELSE [kc EXCEPT !.pc = "done", !.returned = EmptyList]
    /\ UNCHANGED <<basevars, cavars, noncollect>>

CollectCacheReporting ==
    /\ kc.pc = "cache"
    /\ IF CacheGet(kc.key) # Absent
       THEN /\ kc' = [kc EXCEPT !.pc = "done", !.hit = TRUE, !.returned = CacheGet(kc.key)]
            /\ failure_streak' = 0
       ELSE /\ kc' = [kc EXCEPT !.pc = "limit"]
            /\ failure_streak' = failure_streak
    /\ UNCHANGED <<enabled, pauseLeft, cpc, cur, run, qvars, ppvars, rlvars, cavars,
                   noncollect>>

\* collect: cached_result = self.cache.get(cache_key), returned when not None
CollectCache ==
    /\ kc.pc = "cache"
    /\ kc' = IF CacheGet(kc.key) # Absent
             THEN [kc EXCEPT !.pc = "done", !.hit = TRUE, !.returned = CacheGet(kc.key)]
             ELSE [kc EXCEPT !.pc = "limit"]
    /\ UNCHANGED <<basevars, cavars, noncollect>>

\* collect: self.rate_limiter.wait_if_needed() of the one thread that uses
\* the collector; it blocks until the refill allows a token
CollectLimit ==
    /\ kc.pc = "limit"
    /\ Refilled(tokens60, sinceRefill) >= Minute
    /\ tokens60' = Refilled(tokens60, sinceRefill) - Minute
    /\ sinceRefill' = 0
    /\ kc' = [kc EXCEPT !.pc = "fetch", !.did = @ \cup {"token"}]
    /\ UNCHANGED <<recent, qvars, ppvars, cbvars, cavars, noncollect>>

\* collect: result = self._collect_impl(...); when it raises,
\* _update_circuit_breaker(False) and the exception goes to the caller
CollectFetch ==
    /\ kc.pc = "fetch"
    /\ \E o \in ProviderOutcomes :
          IF CollectImpl(o) = "raise"
          THEN /\ failure_streak < MaxStreak
               /\ failure_streak' = StreakAfterFailure
               /\ pauseLeft' = PauseAfterFailure
               /\ kc' = [kc EXCEPT !.pc = "done", !.returned = "raise",
                                   !.did = @ \cup {"fetch", "breaker"}]
          ELSE /\ \E r \in FetchResults(o, kc.job) :
                     kc' = [kc EXCEPT !.pc = "store", !.returned = r,
                                     !.did = @ \cup {"fetch"}]
               /\ UNCHANGED <<failure_streak, pauseLeft>>
    /\ UNCHANGED <<enabled, cpc, cur, run, qvars, ppvars, rlvars, cavars, noncollect>>

\* collect: self.cache.set(cache_key, result), with the default ttl
CollectStore ==
    /\ kc.pc = "store"
    /\ cache_rows' = [cache_rows EXCEPT ![kc.key] =
                         [value |-> json_dumps(kc.returned),
                          left |-> EffectiveTtl(Null)]]
    /\ lastSet' = [lastSet EXCEPT ![kc.key] =
                      [value |-> kc.returned, ttl |-> Null, age |-> 0]]
    /\ kc' = [kc EXCEPT !.pc = "report", !.did = @ \cup {"cache_set"}]
    /\ UNCHANGED <<basevars, noncollect>>

\* collect: self._update_circuit_breaker(True), return result
CollectReport ==
    /\ kc.pc = "report"
    /\ failure_streak' = 0
    /\ kc' = [kc EXCEPT !.pc = "done", !.did = @ \cup {"breaker"}]
    /\ UNCHANGED <<enabled, pauseLeft, cpc, cur, run, qvars, ppvars, rlvars, cavars,
                   noncollect>>

\* the caller has the result
CollectDone ==
    /\ kc.pc = "done"
    /\ kc' = [kc EXCEPT !.pc = "idle"]
    /\ UNCHANGED <<basevars, cavars, noncollect>>

\* BaseCollector.__init__: no call under way
InitCollector == kc = NoCollect

\* ------------------------------------- EbayCollector._filter_junk_listings
\* strings are sequences of characters; MaxTitle and MaxKeyword bound the
\* lengths, MaxItems the number of listings and of keywords of one call
MaxTitle == 2
MaxKeyword == 2
MaxItems == 2
Chars == {"a", "A", " "}
EmptyString == <<>>
Strings(n) == UNION {[1..k -> Chars] : k \in 0..n}

\* str.lower
lower(str) == [i \in 1..Len(str) |-> IF str[i] = "A" THEN "a" ELSE str[i]]

\* str.strip
RECURSIVE lstrip(_)
lstrip(str) == IF str # <<>> /\ Head(str) = " " THEN lstrip(Tail(str)) ELSE str
RECURSIVE rstrip(_)
rstrip(str) ==
    IF str # <<>> /\ str[Len(str)] = " " THEN rstrip(SubSeq(str, 1, Len(str) - 1)) ELSE str
strip(str) == rstrip(lstrip(str))

\* keyword in text_to_check
IsSubstring(keyword, text) ==
    \E i \in 0..(Len(text) - Len(keyword)) : SubSeq(text, i + 1, i + Len(keyword)) = keyword

\* item.get('title', '')
TitleOf(item) == IF "title" \in DOMAIN item THEN item.title ELSE EmptyString

\* items of the searchResult, with or without a title
EbayItems == [itemId : 1..MaxItems, title : Strings(MaxTitle)] \cup [itemId : 1..MaxItems]
ItemLists == UNION {[1..n -> EbayItems] : n \in 0..MaxItems}
KeywordLists == UNION {[1..n -> Strings(MaxKeyword)] : n \in 0..MaxItems}

\* [str(k).strip().lower() for k in exclude_keywords if k]
RECURSIVE exclude_normalized(_)
exclude_normalized(exclude_keywords) ==
    IF exclude_keywords = <<>> THEN <<>>
    ELSE LET k == Head(exclude_keywords)
             rest == exclude_normalized(Tail(exclude_keywords))
         IN IF k # EmptyString THEN <<lower(strip(k))>> \o rest ELSE rest

\* the same, comparing titles as they are
should_exclude_case_sensitive(item, normalized) ==
    \E i \in 1..Len(normalized) : IsSubstring(normalized[i], TitleOf(item))

\* any(keyword in text_to_check for keyword in exclude_normalized)
should_exclude(item, normalized) ==
    \E i \in 1..Len(normalized) : IsSubstring(normalized[i], lower(TitleOf(item)))

\* for item in items: ... filtered.append(item)
RECURSIVE FilterLoop(_, _)
FilterLoop(items, normalized) ==
    IF items = <<>> THEN <<>>
    ELSE IF should_exclude(Head(items), normalized)
         THEN FilterLoop(Tail(items), normalized)
         ELSE <<Head(items)>> \o FilterLoop(Tail(items), normalized)

_filter_junk_listings(items, exclude_keywords) ==
    IF exclude_keywords = <<>> THEN items
    ELSE IF exclude_normalized(exclude_keywords) = <<>> THEN items
    ELSE FilterLoop(items, exclude_normalized(exclude_keywords))

CallFilterJunkListings ==
    /\ arg = NoCall
    /\ \E items \in ItemLists, exclude_keywords \in KeywordLists :
          /\ arg' = [fn |-> "_filter_junk_listings", items |-> items,
                     exclude_keywords |-> exclude_keywords]
          /\ ret' = [fn |-> "_filter_junk_listings",
                     filtered |-> _filter_junk_listings(items, exclude_keywords)]
    /\ UNCHANGED <<basevars, nonfun>>

\* ------------------------------------------------------ the heartbeat loops
\* seconds that pass in one step of the loops' clock
HbStep == 10
worker_loop_heartbeat_interval == 30

\* _heartbeat_loop of the worker, _worker_heartbeat_loop, _heartbeat_loop of
\* the grader
Loops == {"worker_job", "worker", "grader_job"}

\* heartbeat_interval of each loop
loop_interval(l) ==
    CASE l = "worker_job" -> worker_heartbeat_interval
      [] l = "worker" -> worker_loop_heartbeat_interval
      [] l = "grader_job" -> grader_heartbeat_interval

NewLoop == [pc |-> "while", stop |-> FALSE, waited |-> 0, last |-> "none"]

\* while not stop_event.is_set(), leaving the loop on any failed update
LoopWhileUntilFailure(l) ==
    /\ hl[l].pc = "while"
    /\ hl' = [hl EXCEPT ![l].pc = IF hl[l].stop \/ hl[l].last = "failed"
                                  THEN "ended" ELSE "try"]
    /\ UNCHANGED <<basevars, nonloop>>

\* while not stop_event.is_set()
LoopWhile(l) ==
    /\ hl[l].pc = "while"
    /\ hl' = [hl EXCEPT ![l].pc = IF hl[l].stop THEN "ended" ELSE "try"]
    /\ UNCHANGED <<basevars, nonloop>>

\* try: update_job_heartbeat(job_id) / upsert_worker_heartbeat(...); an
\* exception is logged
LoopUpdate(l) ==
    /\ hl[l].pc = "try"
    /\ \E outcome \in {"updated", "failed"} :
          hl' = [hl EXCEPT ![l].pc = "wait", ![l].last = outcome, ![l].waited = 0]
    /\ UNCHANGED <<basevars, nonloop>>

\* stop_event.wait(heartbeat_interval) returns: the event is set or the
\* interval is over
LoopWait(l) ==
    /\ hl[l].pc = "wait"
    /\ hl[l].stop \/ hl[l].waited >= loop_interval(l)
    /\ hl' = [hl EXCEPT ![l].pc = "while"]
    /\ UNCHANGED <<basevars, nonloop>>

\* stop_event.set() by the owner of the thread
SetStop(l) ==
    /\ ~hl[l].stop
    /\ hl' = [hl EXCEPT ![l].stop = TRUE]
    /\ UNCHANGED <<basevars, nonloop>>

\* HbStep seconds pass while every live loop waits; no wait lasts beyond its
\* interval or beyond the setting of its event
LoopTick ==
    /\ \E l \in Loops : hl[l].pc = "wait"
    /\ \A l \in Loops :
          \/ hl[l].pc = "ended"
          \/ hl[l].pc = "wait" /\ ~hl[l].stop /\ hl[l].waited < loop_interval(l)
    /\ hl' = [l \in Loops |->
                IF hl[l].pc = "wait" THEN [hl[l] EXCEPT !.waited = @ + HbStep] ELSE hl[l]]
    /\ UNCHANGED <<basevars, nonloop>>

InitLoops == hl = [l \in Loops |-> NewLoop]

\* ---------------------------------------------------------- specifications

InitQueue(types) ==
    /\ jtype \in [Jobs -> types]
    /\ status = [j \in Jobs |-> "pending"]
    /\ hbAge = [j \in Jobs |-> 0]
    /\ retryIn = [j \in Jobs |-> Null]
    /\ pc = [p \in Procs |-> AfterJob(p)]
    /\ job = [p \in Procs |-> NoJob]
    /\ sinceReclaim = [p \in Procs |-> 0]
    /\ hbRun = [p \in Procs |-> FALSE]
    /\ hbWait = [p \in Procs |-> 0]
    /\ lastCall = "other"
    /\ hbFailed = [p \in Procs |-> FALSE]
    /\ sinceClaim = 0

\* an empty price_points table
InitPP ==
    /\ price_points = EmptyBag
    /\ left = [p \in Workers |-> 0]
    /\ lastOp = "other"

\* a source with no failure on record and never paused
InitCB(en) ==
    /\ enabled \in en
    /\ failure_streak = 0
    /\ pauseLeft = Null
    /\ cpc = [c \in Collectors |-> "idle"]
    /\ cur = [c \in Collectors |-> 0]
    /\ run = 0

\* RateLimiter.__init__: a full bucket
InitRL ==
    /\ tokens60 = RatePerMinute * Minute
    /\ sinceRefill = 0
    /\ recent = <<>>

\* the components below the rate limiter at their start
InitX ==
    /\ InitCache /\ InitJob /\ InitFun /\ InitThreads /\ InitCollector /\ InitLoops
    /\ since = 0 /\ fresh = 0

\* several pricing workers on a queue of pricing jobs
Init == InitQueue({"pricing"}) /\ InitPP /\ InitCB({TRUE}) /\ InitRL /\ InitX

Next ==
    \/ \E p \in Workers : ReclaimCheck(p)
    \/ \E p \in Workers : claim_next_job(p)
    \/ \E p \in Workers : StartHeartbeat(p)
    \/ \E p \in Workers : update_job_heartbeat(p)
    \/ \E p \in Workers : update_job_status(p)
    \/ \E p \in Workers : mark_job_retryable_in(p)
    \/ \E p \in Workers : StopHeartbeat(p)
    \/ Tick

Spec == Init /\ [][Next]_vars

\* the grader service on a queue of grading jobs; the grader may be killed
\* and is started again
InitLive == InitQueue({"grading"}) /\ InitPP /\ InitCB({TRUE}) /\ InitRL /\ InitX

\* run_grader: claim, process, sleep
GraderLoop(g) ==
    \/ claim_next_job(g)
    \/ StartHeartbeat(g)
    \/ update_job_heartbeat(g)
    \/ update_job_status(g)
    \/ StopHeartbeat(g)

NextLive ==
    \/ \E g \in Graders : claim_next_job(g)
    \/ \E g \in Graders : StartHeartbeat(g)
    \/ \E g \in Graders : update_job_heartbeat(g)
    \/ \E g \in Graders : update_job_status(g)
    \/ \E g \in Graders : StopHeartbeat(g)
    \/ \E g \in Graders : Crash(g)
    \/ \E g \in Graders : Restart(g)
    \/ Tick

\* the grader keeps running its main loop and time keeps passing
LiveSpec ==
    /\ InitLive
    /\ [][NextLive]_vars
    /\ WF_vars(Tick)
    /\ \A g \in Graders : WF_vars(GraderLoop(g)) /\ WF_vars(Restart(g))

\* workers inserting batches of listings into price_points
InitInsert == InitQueue({"pricing"}) /\ InitPP /\ InitCB({TRUE}) /\ InitRL /\ InitX

NextPP ==
    \/ \E p \in Workers : insert_price_points(p)
    \/ \E p \in Workers, pp \in Listings, ok \in BOOLEAN : UpsertStep(p, pp, ok)

SpecPP == InitInsert /\ [][NextPP]_vars

\* collectors of several workers collecting from one source
InitCollect == InitQueue({"pricing"}) /\ InitPP /\ InitCB(BOOLEAN) /\ InitRL /\ InitX

NextCB ==
    \/ \E c \in Collectors : CheckBreaker(c)
    \/ \E c \in Collectors : ReportSuccess(c)
    \/ \E c \in Collectors : ReadStreak(c)
    \/ \E c \in Collectors : WriteStreak(c)
    \/ \E c \in Collectors : GetSource(c)
    \/ \E c \in Collectors : PauseWrite(c)
    \/ CBTick

SpecCB == InitCollect /\ [][NextCB]_vars

\* calls of acquire() at any times
InitLimiter == InitQueue({"pricing"}) /\ InitPP /\ InitCB({TRUE}) /\ InitRL /\ InitX

NextRL == acquire \/ RLTick

SpecRL == InitLimiter /\ [][NextRL]_vars

\* get, set and clear_expired on one cache database at any times
InitCaching == InitQueue({"pricing"}) /\ InitPP /\ InitCB({TRUE}) /\ InitRL /\ InitX

NextCache ==
    \/ \E k \in CacheKeys, v \in CacheValues, ttl \in CacheTtls : CacheSet(k, v, ttl)
    \/ clear_expired
    \/ CacheTick

SpecCache == InitCaching /\ [][NextCache]_vars

\* workers processing jobs of one source, which may be disabled
InitProcess == InitQueue({"pricing"}) /\ InitPP /\ InitCB(BOOLEAN) /\ InitRL /\ InitX

process_job(p) ==
    \/ JobStart(p)
    \/ ResolveSource(p)
    \/ Collect(p)
    \/ EmptyCheck(p)
    \/ Unavailable(p)
    \/ PauseSource(p)
    \/ Reschedule(p)
    \/ Persist(p)
    \/ Valuate(p)
    \/ HandleException(p)
    \/ Finally(p)

NextJob ==
    \/ \E p \in Workers : process_job(p)
    \/ JobTick

SpecJob == InitProcess /\ [][NextJob]_vars

\* calls of update_job_status
InitStatus == InitQueue({"pricing"}) /\ InitPP /\ InitCB({TRUE}) /\ InitRL /\ InitX
NextStatus == CallUpdateJobStatus
SpecStatus == InitStatus /\ [][NextStatus]_vars

\* two threads using one RateLimiter
NextThreads ==
    \/ \E t \in Threads : Call(t, "acquire")
    \/ \E t \in Threads : Call(t, "wait_if_needed")
    \/ \E t \in Threads : AcquireRefill(t)
    \/ \E t \in Threads : AcquireTest(t)
    \/ \E t \in Threads : AcquireLoad(t)
    \/ \E t \in Threads : AcquireStore(t)
    \/ \E t \in Threads : WaitTime(t)
    \/ \E t \in Threads : WakeUp(t)
    \/ \E t \in Threads : Returned(t)
    \/ ThreadTick

SpecThreads == InitStatus /\ [][NextThreads]_vars

\* one collector called again and again while time passes
NextCollector ==
    \/ CollectStart
    \/ CollectBreaker
    \/ CollectCache
    \/ CollectLimit
    \/ CollectFetch
    \/ CollectStore
    \/ CollectReport
    \/ CollectDone
    \/ CacheTick
    \/ RLTick
    \/ CBTick

SpecCollector == InitStatus /\ [][NextCollector]_vars

\* calls of compute_valuation
NextValuation == CallComputeValuation
SpecValuation == InitStatus /\ [][NextValuation]_vars

\* one worker that the operator may interrupt
NextStop ==
    \/ process_job("w1")
    \/ Interrupt("w1")
    \/ Unwind("w1")
    \/ JobTick

SpecStop == InitProcess /\ [][NextStop]_vars

\* one worker and the grader, each running its process_job
NextExit ==
    \/ process_job("w1")
    \/ \E g \in Graders : GradeStart(g) \/ Grade(g) \/ GradeException(g) \/ GradeFinally(g)
    \/ JobTick

SpecExit == InitProcess /\ [][NextExit]_vars

NextFilter == CallFilterJunkListings
SpecFilter == InitStatus /\ [][NextFilter]_vars

heartbeat_loop(l) == LoopWhile(l) \/ LoopUpdate(l) \/ LoopWait(l)
NextLoops == (\E l \in Loops : heartbeat_loop(l) \/ SetStop(l)) \/ LoopTick
\* each thread keeps being scheduled and time keeps passing
SpecLoops ==
    /\ InitStatus /\ [][NextLoops]_vars
    /\ \A l \in Loops : WF_vars(heartbeat_loop(l))
    /\ WF_vars(LoopTick)

\* the calls of a collector that use the circuit breaker of the source
update_circuit_breaker(c) ==
    \/ CheckBreaker(c)
    \/ ReportSuccess(c)
    \/ ReadStreak(c)
    \/ WriteStreak(c)
    \/ GetSource(c)
    \/ PauseWrite(c)

\* a worker in process_job and the collector of another worker on one source
NextPause ==
    \/ process_job("w1")
    \/ update_circuit_breaker("c1")
    \/ JobTick

SpecPause == InitProcess /\ [][NextPause]_vars

\* one collector reporting on the source, one report after the other
NextCooldown == update_circuit_breaker("c1") \/ CBTick
SpecCooldown == InitCollect /\ [][NextCooldown]_vars

\* ------------------------------------------------------------------ claims

Holders(j) == {p \in Procs : Holding(p, j)}

C2_SingleHolder == \A j \in Jobs : Cardinality(Holders(j)) <= 1

\* C3: a job whose status is succeeded or failed keeps that status.
C3_TerminalIsFinal ==
    [][\A j \in Jobs : status[j] \in {"succeeded", "failed"} => status'[j] = status[j]]_vars

C6_StaleIsReclaimed ==
    \A j \in Jobs :
        (status[j] = "running" /\ hbAge[j] > job_lock_timeout_seconds)
           ~> ~(status[j] = "running" /\ hbAge[j] > job_lock_timeout_seconds)

KeyCount(rows, pp) ==
    LET hit == RowsOf(rows, pp.intake_id, pp.source_id, pp.dedupe_key)
    IN  IF hit = {} THEN 0
        ELSE IF Cardinality(hit) = 1 THEN CopiesIn(CHOOSE r \in hit : TRUE, rows)
        ELSE 2

\* no two rows of the table share (intake_id, source_id, dedupe_key)
OneRowPerKey(rows) ==
    \A r \in BagToSet(rows) :
        /\ CopiesIn(r, rows) = 1
        /\ RowsOf(rows, r.intake_id, r.source_id, r.dedupe_key) = {r}

\* C4: after every upsert the table holds at most one row per (intake_id,
\* source_id, dedupe_key), and exactly one row under the key of the listing
\* that was upserted; upserting a listing that is already stored adds no row.
C4_OneRowPerKey ==
    [][\A p \in Workers, pp \in Listings :
          UpsertStep(p, pp, TRUE) =>
             /\ OneRowPerKey(price_points')
             /\ KeyCount(price_points', pp) = 1
             /\ KeyCount(price_points, pp) = 1 =>
                   BagCardinality(price_points') = BagCardinality(price_points)]_vars

\* the listing upserted last was already stored, next to a row of another key
C4_Witness == lastOp = "same" /\ BagCardinality(price_points) = 2

\* the stored row of the key of listing pp
RowOf(rows, pp) ==
    CHOOSE r \in RowsOf(rows, pp.intake_id, pp.source_id, pp.dedupe_key) : TRUE

IncomingStrength(pp) ==
    IF pp.match_strength = Null THEN default_match_strength ELSE pp.match_strength

C8_OpensOnFifthFailure ==
    [][\A c \in Collectors :
          ReportDone(c) =>
             /\ run' \in 1..(circuit_breaker_failure_threshold - 1)
                   => check_source_available'
             /\ run' = circuit_breaker_failure_threshold
                   => /\ pauseLeft' = circuit_breaker_cooldown_seconds
                      /\ ~check_source_available']_vars

\* five failures have been reported one after another and the source is paused
C8_Witness ==
    /\ run = circuit_breaker_failure_threshold
    /\ enabled /\ ~check_source_available
    /\ failure_streak = circuit_breaker_failure_threshold

\* C9: a success report sets the failure streak to 0 and leaves an enabled
\* source available, even if the source was paused when it was reported.
C9_SuccessRestoresAvailability ==
    [][\A c \in Collectors :
          ReportSuccess(c) =>
             /\ failure_streak' = 0
             /\ enabled => check_source_available']_vars

\* C10: at no time have more than rate_per_minute calls of acquire() returned
\* True within the last 60 seconds.
C10_AtMostRPerMinute == Len(recent) <= RatePerMinute

\* C11: once a key has been set, Cache.get returns the value of the latest set
\* while less than its ttl has passed since, and absent from then on, whether
\* or not clear_expired has run.
C11_GetFollowsTtl ==
    \A k \in CacheKeys :
        lastSet[k] # NoSet =>
            CacheGet(k) = IF lastSet[k].age < (IF lastSet[k].ttl = Null
                                               THEN cache_ttl_seconds
                                               ELSE lastSet[k].ttl)
                          THEN lastSet[k].value ELSE Absent

\* C12: every retry scheduling of process_job leaves the job with a next-retry
\* time that is set and strictly later than the time of the call (the delay
\* base x 2^attempt, capped, is positive).
C12_RetryTimeInFuture ==
    [][\A p \in Workers :
          ((update_job_status(p) \/ mark_job_retryable_in(p))
              /\ status'[job[p]] = "retryable")
             => (retryIn'[job[p]] # Null /\ retryIn'[job[p]] > 0)]_vars

\* C13: once process_job has returned, in the worker or in the grader and
\* whatever the exit path was, the heartbeat stop event has been set and the
\* heartbeat thread joined
C13_HeartbeatStoppedOnReturn ==
    \A p \in Procs : jpc[p] = "idle" => ~jhb[p]

\* the worker has returned through the early return for a disabled source and
\* the grader through one of its own early returns
C13_Witness ==
    /\ jpc["w1"] = "idle" /\ pj["w1"].message = <<"Source is disabled">> /\ ~jhb["w1"]
    /\ jpc["g1"] = "idle" /\ pj["g1"].message = <<"No coin images found">> /\ ~jhb["g1"]

\* the job in hand was failed for a disabled source
FailedAsDisabled(p) ==
    /\ pj[p].status = "failed"
    /\ pj[p].message = <<"Source is disabled">>
    /\ pj[p].calls = 1
    /\ ~pj[p].invoked

\* C14: when process_job finds the job's source present but disabled, it calls
\* update_job_status once, with failed and 'Source is disabled', and returns
\* through the finally clause with the collector never invoked and the job
\* never retryable or succeeded
C14_DisabledSourceFailsOnce ==
    /\ [][\A p \in Workers :
            (jpc[p] = "resolve" /\ jpc'[p] # "resolve"
                /\ pj[p].source_id = ExistingSource /\ ~enabled)
               => (FailedAsDisabled(p))' /\ jpc'[p] = "finally"]_vars
    /\ [](\A p \in Workers :
            pj[p].message = <<"Source is disabled">> => FailedAsDisabled(p))

\* a worker has returned from a job whose source was disabled
C14_Witness ==
    \E p \in Workers : jpc[p] = "idle" /\ ~enabled /\ FailedAsDisabled(p)

\* C15: a job whose source cannot be found ends in status failed, whatever the
\* source id is, and never in status retryable
C15_MissingSourceFails ==
    \A p \in Workers :
        (pj[p].source_id # ExistingSource /\ jpc[p] \in {"finally", "idle"})
           => pj[p].status = "failed"

\* C16: a job whose provider call failed with an authentication error ends in
\* status failed with the source disabled, never succeeded or retryable
C16_AuthErrorFailsAndDisables ==
    \A p \in Workers :
        (pj[p].result = "auth_error" /\ jpc[p] \in {"finally", "idle"})
           => (pj[p].status = "failed" /\ ~enabled)

C18_UnavailableIsRescheduled ==
    \A p \in Workers :
        (pj[p].result = "skipped" /\ jpc[p] \in {"finally", "idle"})
           => /\ pj[p].status = "retryable"
              /\ pj[p].seen # Null
              /\ pj[p].delay = Max(min_unavailable_delay, pj[p].seen)

\* C19: a job for which the provider returned no listings, the source being
\* available for the collection attempt, ends succeeded with nothing persisted,
\* whatever other workers do to the source meanwhile
C19_EmptyResultSucceeds ==
    \A p \in Workers :
        (pj[p].result = "empty" /\ jpc[p] \in {"finally", "idle"})
           => (pj[p].status = "succeeded" /\ ~pj[p].persisted)

\* C20: a job for which collect returned listings and no store call failed
\* ends succeeded, with the listings persisted
C20_ListingsEndSucceeded ==
    \A p \in Workers :
        (pj[p].result = "listings" /\ jpc[p] \in {"finally", "idle"}
            /\ pj[p].message \notin StoreErrorTexts)
           => (pj[p].status = "succeeded" /\ pj[p].persisted)

\* the texts of the exceptions that reach the except Exception clause
RaisedTexts ==
    StoreErrorTexts \cup {ValuationErrorText}
        \cup {<<"Source not found:">> \o s : s \in SourceIds \ {ExistingSource}}

\* C21: a job whose processing raised an exception (not the rate-limit error)
\* ends retryable with a next-retry time set when the message holds a transient
\* token, and failed with the error text recorded otherwise
C21_ExceptionOutcome ==
    \A p \in Workers :
        (pj[p].message \in RaisedTexts /\ jpc[p] \in {"finally", "idle"})
           => IF IsRetryable(pj[p].message)
              THEN pj[p].status = "retryable" /\ pj[p].delay # Null /\ pj[p].delay > 0
              ELSE pj[p].status = "failed"

\* C22: what collect returns for an unavailable source differs from what it
\* returns for a fetch that found no listings
C22_SkippedIsDistinct ==
    \A p, q \in Workers :
        (pj[p].result = "skipped" /\ pj[q].result = "empty")
           => pj[p].returned # pj[q].returned

\* C23 as stated: in both services completed_at is written exactly when the
\* status argument, the legacy names completed and cancelled taken as succeeded
\* and failed, is succeeded or failed
C23_LegacyNamesComplete ==
    arg.fn = "update_job_status" =>
        ((ret.update_data.completed_at = "now")
            <=> (StatusName(arg.status) \in {"succeeded", "failed"}))

\* C23 amended: completed_at is written exactly when the status written to the
\* row is succeeded or failed; the worker writes the legacy names completed
\* and cancelled as succeeded and failed, the grader writes its argument as it
\* is; a row that is not completed keeps the completed_at it had
C23_CompletedAtOnTerminal ==
    arg.fn = "update_job_status" =>
        /\ (ret.update_data.completed_at = "now")
              <=> (ret.row.status \in {"succeeded", "failed"})
        /\ ret.row.status = IF arg.service = "worker" THEN StatusName(arg.status)
                            ELSE arg.status
        /\ ret.row.status \notin {"succeeded", "failed"}
              => ret.row.completed_at = arg.row.completed_at

\* the worker was called with the legacy name completed for a row that had no
\* completed_at, and wrote one
C23_Witness ==
    /\ arg.fn = "update_job_status"
    /\ arg.service = "worker" /\ arg.status = "completed"
    /\ arg.row.completed_at = "null"
    /\ ret.row.status = "succeeded" /\ ret.row.completed_at = "now"

C25_InFlightJobFinishes ==
    \A p \in Workers :
        jpc[p] = "stopped"
           => /\ ~jhb[p]
              /\ pj[p].message = <<"KeyboardInterrupt">>
                    => pj[p].status \in {"succeeded", "failed", "retryable"}

\* C26: compute_valuation on a list without valid price points (empty, or
\* every point with filtered_out set) returns comp_count 0, confidence_score 1
\* and null for every price field
C26_NoValidPoints ==
    (arg.fn = "compute_valuation"
        /\ \A i \in 1..Len(arg.price_points) : arg.price_points[i].filtered_out = "true")
       => /\ ret.valuation.comp_count = 0
          /\ ret.valuation.confidence_score = 1
          /\ ret.valuation.price_cents_p10 = Null
          /\ ret.valuation.price_cents_median = Null
          /\ ret.valuation.price_cents_p90 = Null
          /\ ret.valuation.price_cents_mean = Null

\* compute_valuation was called with two priced points, both filtered out
C26_Witness ==
    /\ arg.fn = "compute_valuation"
    /\ Len(arg.price_points) = 2
    /\ \A i \in 1..2 : arg.price_points[i].filtered_out = "true"
                          /\ arg.price_points[i].price_cents = 1000
    /\ ret.valuation.comp_count = 0

\* C28: whenever wait_if_needed returns, one token has been deducted from the
\* bucket for the caller, also with another thread on the same limiter
C28_WaitReturnsWithToken ==
    \A t \in Threads :
        (th[t].pc = "returned" /\ th[t].call = "wait_if_needed")
           => th[t].acquired = 1

\* C30: with threads calling acquire() concurrently, the calls that returned
\* True never outnumber the whole tokens the bucket held plus those refilled,
\* and the token count never goes below 0
C30_NoTokenSpentTwice ==
    /\ grants * Minute <= supply60
    /\ tokens60 >= 0

\* C27: on a cache hit collect returns the cached listings as they are and
\* does nothing else: the token bucket, the cache and the source's failure
\* streak, pause and enabled flag are as they were, and the call has acquired
\* no token, fetched nothing, written no cache row and reported nothing
C27_CacheHitFrame ==
    /\ [][(kc.pc = "cache" /\ kc'.pc # "cache" /\ CacheGet(kc.key) # Absent)
            => /\ kc'.pc = "done"
               /\ kc'.returned = CacheGet(kc.key)
               /\ UNCHANGED <<tokens60, sinceRefill, cache_rows, failure_streak,
                              pauseLeft, enabled>>]_vars
    /\ [](kc.hit => kc.did = {})

\* a call has been answered from the cache while the source had failures on
\* its streak and the bucket was not full
C27_Witness ==
    /\ kc.pc = "done" /\ kc.hit /\ kc.returned \in CacheValues
    /\ failure_streak > 0
    /\ tokens60 < RatePerMinute * Minute

\* C29: a collection whose provider call failed, authentication and rate-limit
\* errors aside, is reported to the circuit breaker as a failure and raises
\* the source's failure streak by one; the streak is reset only by a
\* collection whose fetch completed normally
C29_ProviderFailureIsReported ==
    [][\A p \in Workers :
          (jpc[p] = "collect" /\ jpc'[p] # "collect")
             => /\ pj'[p].result = "timeout" => failure_streak' = failure_streak + 1
                /\ (failure_streak > 0 /\ failure_streak' = 0)
                      => pj'[p].result \in {"listings", "empty"}]_vars

\* the exclude keywords that count: the non-empty ones, trimmed and lower-cased
CountedKeywords(exclude_keywords) ==
    {lower(strip(exclude_keywords[i])) :
        i \in {j \in 1..Len(exclude_keywords) : exclude_keywords[j] # EmptyString}}

\* the title of the item contains none of the counted keywords
Clean(item, exclude_keywords) ==
    \A k \in CountedKeywords(exclude_keywords) : ~IsSubstring(k, lower(TitleOf(item)))

\* C31: _filter_junk_listings returns, in their original order, exactly the
\* items whose lower-cased title contains none of the trimmed, lower-cased
\* exclude keywords as a substring, and every item unchanged when no exclude
\* keyword is non-empty
C31_FilterKeepsCleanItems ==
    arg.fn = "_filter_junk_listings"
       => /\ ret.filtered = SelectSeq(arg.items, LAMBDA item : Clean(item, arg.exclude_keywords))
          /\ CountedKeywords(arg.exclude_keywords) = {} => ret.filtered = arg.items

\* of two listings in a call with the keyword " A", the first, titled "Aa",
\* was dropped and the second, titled " ", was returned
C31_Witness ==
    /\ arg.fn = "_filter_junk_listings"
    /\ arg.exclude_keywords = <<<<" ", "A">>>>
    /\ Len(arg.items) = 2
    /\ \A i \in 1..2 : "title" \in DOMAIN arg.items[i]
    /\ arg.items[1].title = <<"A", "a">>
    /\ arg.items[2].title = <<" ">>
    /\ ret.filtered = <<arg.items[2]>>

\* C32: a failed heartbeat update never ends a heartbeat loop: a loop ends
\* only with its stop event set, every attempt after the first comes a full
\* interval after the one before, a failed attempt is followed by another
\* unless the event is set, and a loop whose event is set ends
C32_LoopSurvivesFailure ==
    /\ [][\A l \in Loops : (hl[l].pc # "ended" /\ hl'[l].pc = "ended") => hl[l].stop]_vars
    /\ [](\A l \in Loops :
             (hl[l].pc = "try" /\ hl[l].last # "none")
                => /\ hl[l].waited >= loop_interval(l)
                   /\ hl[l].waited < loop_interval(l) + HbStep)
    /\ \A l \in Loops :
          /\ (hl[l].pc = "wait" /\ hl[l].last = "failed") ~> (hl[l].pc = "try" \/ hl[l].stop)
          /\ hl[l].stop ~> (hl[l].pc = "ended")

\* the worker's job heartbeat loop is about to make another attempt after a
\* failed one, and the grader's loop has ended after a failed attempt
C32_Witness ==
    /\ hl["worker_job"].pc = "try" /\ hl["worker_job"].last = "failed"
    /\ ~hl["worker_job"].stop
    /\ hl["grader_job"].pc = "ended" /\ hl["grader_job"].last = "failed"

\* C33: a collect call that finds its source unavailable returns the empty
\* list at once: no cache lookup or store, no rate-limit token, no provider
\* fetch, no report to the circuit breaker, and the source's failure streak,
\* paused_until and enabled flag stay as they were
C33_UnavailableSkipsEverything ==
    [][(kc.pc = "breaker" /\ kc'.pc # "breaker" /\ ~check_source_available)
          => /\ kc'.pc = "done"
             /\ kc'.returned = EmptyList
             /\ kc'.did = {} /\ ~kc'.hit
             /\ UNCHANGED <<tokens60, sinceRefill, cache_rows, lastSet,
                            failure_streak, pauseLeft, enabled>>]_vars

\* a collect call was skipped on a paused source although the cache held a
\* live row for its key
C33_Witness ==
    /\ kc.pc = "done" /\ kc.returned = EmptyList /\ kc.did = {} /\ ~kc.hit
    /\ ~check_source_available
    /\ pauseLeft > 0
    /\ CacheGet(kc.key) \in CacheValues

\* C34: an invocation of process_job on a pricing job that has reached its
\* finally clause, on whatever path, has reported the job's outcome exactly
\* once: one call of update_job_status or one call of mark_job_retryable_in
C34_OutcomeReportedOnce ==
    \A p \in Workers :
       jpc[p] \in {"finally", "unwinding"} => pj[p].calls + pj[p].scheduled = 1

\* C35: the listings a collect call returns carry the job_id, intake_id and
\* source_id of the job that made the call, also when they come from the cache
C35_ListingsCarryCallersIds ==
    (kc.pc = "done" /\ kc.returned \in CacheValues) => StampOf(kc.returned) = kc.job

\* C36: a job that process_job has left retryable has had a next-retry time
\* set by the call that made it retryable
C36_RetryableHasRetryTime ==
    \A p \in Workers :
        (jpc[p] \in {"finally", "idle"} /\ pj[p].status = "retryable")
           => pj[p].delay # Null

C38_PauseNeverShortened ==
    [][(PauseWrite("c1") \/ PauseSource("w1"))
          => (pauseLeft # Null => pauseLeft' >= pauseLeft)]_vars

\* C39: once the cooldown of a pause has run out the source is paused again
\* only after 5 further failures have been reported
C39_FiveFurtherFailures ==
    [][PauseWrite("c1") => fresh >= circuit_breaker_failure_threshold]_vars

NeverSucceededWithListings ==
    \A p \in Workers : pj[p].returned # <<>> => pj[p].status # "succeeded"
====
